---- MODULE Spec2Model ----
(***************************************************************************)
(* mpc-bleeder (src/main.go): a command-line tool that adds a black bleed  *)
(* border to card images.  The module models                               *)
(*   - the run of main: output-directory creation, the choice between      *)
(*     directory mode and single-file mode, the producer goroutine, the    *)
(*     pool of workers draining the jobs channel, the WaitGroup barrier    *)
(*     and the final notice (specification Spec);                          *)
(*   - createCardWithBleed / fixCorners on pixel grids (SpecCard);         *)
(*   - calculateBleedWidth over a range of widths (SpecBleed).             *)
(* Paths and file names are sequences of one-character strings, so that    *)
(* path.Ext, path.Base, path.Join and strings.TrimSuffix are computed.     *)
(***************************************************************************)
EXTENDS Integers, Sequences, FiniteSets, Bags, TLC

\* ------------------------------------------------------------------ bounds
\* Largest number of directory entries in a listing.
MaxEntries == 2
\* Largest card width / height (pixels) composited in SpecCard.
MaxCardW == 58
MaxCardH == 3
\* Largest width fed to calculateBleedWidth in SpecBleed.
MaxWidth == 800
\* The capacity of the channel in SpecSmallChan, where the program is run
\* with a channel small enough for the listings tried to fill it.
MaxChan == 1

\* ------------------------------------------------------- program constants
\* main.go:67  for range 8
NumWorkers == 8
\* main.go:65  make(chan string, 100)
QueueCap == 100
\* main.go:25-26  widthNoBleed = 2.48, bleedWidth = 0.24 (in hundredths)
widthNoBleed == 248
bleedWidth == 24

VARIABLES
  \* ---- environment and flags of a run
  mkdirOk,        \* whether os.MkdirAll(outFolder) succeeds
  rootKind,       \* what os.Stat(inFileFolder) finds: "missing", "file", "dir", "dirUnreadable"
  inFileFolder,   \* flag -i, a path
  entries,        \* the files of the input folder, sorted by name (os.ReadDir)
  OW_OUT,         \* flag -w
  OUT_FMT,        \* flag -fmt
  \* ---- the output folder: path -> [kind, enc, src]
  outFiles,
  \* ---- goroutines
  mainPc, exitCode,
  prodPc, prodIdx,
  jobs, closed,   \* the channel: buffered paths, closed flag
  chanCap,        \* the capacity the channel is made with
  spawned, wg,    \* workers started so far, the WaitGroup counter
  mainH,          \* main's own call of handleWriteImage: [pc, job, fmt]
  pool,           \* the worker goroutines, a bag of [pc, job, fmt] (workers run
                  \* the same code and differ in nothing else)
  \* ---- observations
  enq, taken,     \* path -> number of sends / receives
  results,        \* the outcomes of the calls of handleWriteImage that returned
  printed,        \* set of <<kind, text>> lines on stdout
  openHandles,    \* *os.File values opened and not closed
  \* ---- SpecCard
  JPG_CORNER_FIX, cardW, cardH, cardFmt, cardSeed, cardPc, cardOut, cardFixed,
  cardPre,        \* the image createCardWithBleed holds before it repairs the corners
  \* ---- SpecBleed
  bW, bH, bPx, bPrevPx, bOutW, bOutH

cardVars == <<JPG_CORNER_FIX, cardW, cardH, cardFmt, cardSeed, cardPc, cardOut, cardFixed,
              cardPre>>
bleedVars == <<bW, bH, bPx, bPrevPx, bOutW, bOutH>>
envVars == <<mkdirOk, rootKind, inFileFolder, entries, OW_OUT, OUT_FMT, chanCap>>
\* What no step of a run changes: the environment and the flags, and the
\* variables of SpecCard and SpecBleed.
fixedVars == <<envVars, cardVars, bleedVars>>
runVars == <<envVars, outFiles, mainPc, exitCode, prodPc, prodIdx, jobs, closed,
             spawned, wg, mainH, pool, enq, taken, results, printed, openHandles>>
vars == <<runVars, cardVars, bleedVars>>

\* ------------------------------------------------------------ path helpers
Chars(s) ==
  CASE s = "png"  -> <<"p", "n", "g">>
    [] s = "jpg"  -> <<"j", "p", "g">>
    [] s = "jpeg" -> <<"j", "p", "e", "g">>
    [] s = "gif"  -> <<"g", "i", "f">>
    [] s = "auto" -> <<"a", "u", "t", "o">>

\* Index of the last occurrence of character c in p, 0 if none.
LastIndex(p, c) ==
  LET I == {i \in 1..Len(p) : p[i] = c}
  IN  IF I = {} THEN 0 ELSE CHOOSE i \in I : \A j \in I : j <= i

\* path.Base: the last element of a path (paths here are clean and non-empty).
Base(p) == SubSeq(p, LastIndex(p, "/") + 1, Len(p))

\* path.Ext / filepath.Ext: the suffix beginning at the final dot in the final
\* element of the path; empty if there is no dot.
Ext(p) ==
  LET d == LastIndex(p, ".")
  IN  IF d > LastIndex(p, "/") THEN SubSeq(p, d, Len(p)) ELSE <<>>

\* path.Join of two clean, non-empty elements.
Join(a, b) == a \o <<"/">> \o b

\* strings.TrimSuffix
TrimSuffix(p, suf) ==
  IF Len(suf) <= Len(p) /\ SubSeq(p, Len(p) - Len(suf) + 1, Len(p)) = suf
  THEN SubSeq(p, 1, Len(p) - Len(suf))
  ELSE p

\* main.go:30
supportedFileTypes == { <<".", "p", "n", "g">>, <<".", "j", "p", "g">>, <<".", "j", "p", "e", "g">> }

\* main.go:49, the output folder (a short clean path)
outFolder == <<"o">>

\* The folder the input files live in.
inDir == <<"i">>

\* ------------------------------------------------------------- environment
\* Files that may sit in the input folder, in os.ReadDir's order (sorted by
\* name, bytewise).  data is what image.Decode finds in the file; perm is
\* whether os.Open succeeds.
Universe ==
  << [name |-> <<"a", ".", "j", "p", "g">>,      isDir |-> FALSE, data |-> "jpeg",    perm |-> TRUE],
     [name |-> <<"a", ".", "p", "n", "g">>,      isDir |-> FALSE, data |-> "png",     perm |-> TRUE],
     [name |-> <<"b", ".", "P", "N", "G">>,      isDir |-> FALSE, data |-> "png",     perm |-> TRUE],
     [name |-> <<"c", ".", "t", "x", "t">>,      isDir |-> FALSE, data |-> "text",    perm |-> TRUE],
     [name |-> <<"d", ".", "p", "n", "g">>,      isDir |-> TRUE,  data |-> "dir",     perm |-> TRUE],
     [name |-> <<"e", ".", "j", "p", "e", "g">>, isDir |-> FALSE, data |-> "corrupt", perm |-> TRUE],
     [name |-> <<"f", ".", "p", "n", "g">>,      isDir |-> FALSE, data |-> "png",     perm |-> FALSE] >>

\* The listing holding the entries of Universe whose index is in S, in order.
Listing(S) ==
  LET F[i \in 0..Len(Universe)] ==
        IF i = 0 THEN <<>>
        ELSE IF i \in S THEN Append(F[i - 1], Universe[i]) ELSE F[i - 1]
  IN  F[Len(Universe)]

\* Values of flag -fmt tried ("gif" stands for any unsupported format).
Formats == {"auto", "png", "jpg", "gif"}

\* What may already be in the output folder when the run starts.
OldFile == [kind |-> "file", enc |-> "old", src |-> <<>>, ws |-> {}]
OldDir == [kind |-> "dir", enc |-> "old", src |-> <<>>, ws |-> {}]
OutAPng == Join(outFolder, <<"a", ".", "p", "n", "g">>)
OutAJpg == Join(outFolder, <<"a", ".", "j", "p", "g">>)
NoFiles == [q \in {} |-> OldFile]
InitialOutFolders ==
  { NoFiles, [q \in {OutAPng} |-> OldFile], [q \in {OutAJpg} |-> OldFile],
    [q \in {OutAPng} |-> OldDir] }

\* The file of the input folder at path q, or NoEntry.
NoEntry == [name |-> <<>>, isDir |-> FALSE, data |-> "none", perm |-> FALSE]
FileAt(q) ==
  LET I == {i \in 1..Len(entries) : Join(inDir, entries[i].name) = q}
  IN  IF I = {} THEN NoEntry ELSE entries[CHOOSE i \in I : TRUE]

\* image.Decode (main.go:106): the registered format the data is in, "" on error.
Decode(f) == IF f.data \in {"png", "jpeg"} THEN f.data ELSE ""

\* f with x mapped to v (x may be new).
Put(f, x, v) == [y \in DOMAIN f \cup {x} |-> IF y = x THEN v ELSE f[y]]
\* Counter f with one more x.
Count(f, x) == IF x \in DOMAIN f THEN f[x] ELSE 0
Incr(f, x) == Put(f, x, Count(f, x) + 1)

\* A goroutine's position in handleWriteImageWorker / handleWriteImage, the
\* job it holds and the format image.Decode reported.
At(pc, job, fmt) == [pc |-> pc, job |-> job, fmt |-> fmt]
\* The number of workers at position pc.
NumAt(pc) ==
  LET S == {s \in BagToSet(pool) : s.pc = pc}
      Sum[T \in SUBSET S] ==
        IF T = {} THEN 0
        ELSE LET t == CHOOSE t \in T : TRUE IN pool[t] + Sum[T \ {t}]
  IN  Sum[S]

InitRunCommon ==
  /\ outFiles \in InitialOutFolders
  /\ OW_OUT \in BOOLEAN
  /\ OUT_FMT \in Formats
  /\ mainPc = "mkdir" /\ exitCode = -1
  /\ prodPc = "off" /\ prodIdx = 1
  /\ jobs = <<>> /\ closed = FALSE
  /\ spawned = 0 /\ wg = 0
  /\ mainH = At("off", <<>>, "")
  /\ pool = EmptyBag
  /\ enq = NoFiles /\ taken = NoFiles
  /\ results = {} /\ printed = {}
  /\ openHandles = 0

InitRun ==
  /\ InitRunCommon
  /\ \/ \* the input path is a folder
        /\ mkdirOk = TRUE /\ rootKind = "dir" /\ inFileFolder = inDir
        /\ \E S \in SUBSET (1..Len(Universe)) :
             Cardinality(S) <= MaxEntries /\ entries = Listing(S)
     \/ \* the input path is a folder that cannot be listed
        /\ mkdirOk = TRUE /\ rootKind = "dirUnreadable" /\ inFileFolder = inDir
        /\ entries = <<>>
     \/ \* the input path is one file of the folder
        /\ mkdirOk = TRUE /\ rootKind = "file"
        /\ \E i \in 1..Len(Universe) :
             /\ ~Universe[i].isDir
             /\ entries = Listing({i})
             /\ inFileFolder = Join(inDir, Universe[i].name)
     \/ \* the input path does not exist
        /\ mkdirOk = TRUE /\ rootKind = "missing" /\ inFileFolder = <<"x">>
        /\ entries = <<>>
     \/ \* the output folder cannot be created
        /\ mkdirOk = FALSE /\ rootKind = "dir" /\ inFileFolder = inDir
        /\ entries = Listing({2})

\* ------------------------------------------------------------------- main
\* The process is alive: os.Exit or the return of main ends every goroutine.
Running == mainPc # "exited"

\* main.go:52-55
Main_MkdirAll ==
  /\ mainPc = "mkdir"
  /\ IF mkdirOk
     THEN mainPc' = "stat" /\ UNCHANGED <<printed, exitCode>>
     ELSE /\ printed' = printed \cup {<<"mkdirFailed", outFolder>>}
          /\ mainPc' = "exited" /\ exitCode' = 1
  /\ UNCHANGED <<fixedVars, outFiles, prodPc, prodIdx, jobs, closed, spawned, wg,
                 mainH, pool, enq, taken, results, openHandles>>

\* main.go:57 and 72-74: os.Stat succeeds on a directory, or main calls
\* handleWriteImage on the input path itself.
Main_Stat ==
  /\ mainPc = "stat"
  /\ IF rootKind \in {"dir", "dirUnreadable"}
     THEN mainPc' = "readdir" /\ UNCHANGED mainH
     ELSE mainPc' = "single" /\ mainH' = At("open", inFileFolder, "")
  /\ UNCHANGED <<fixedVars, outFiles, exitCode, prodPc, prodIdx, jobs, closed, spawned,
                 wg, pool, enq, taken, results, printed, openHandles>>

\* main.go:59-63
Main_ReadDir ==
  /\ mainPc = "readdir"
  /\ IF rootKind = "dir"
     THEN mainPc' = "go" /\ UNCHANGED <<printed, exitCode>>
     ELSE /\ printed' = printed \cup {<<"readDirFailed", inFileFolder>>}
          /\ mainPc' = "exited" /\ exitCode' = 1
  /\ UNCHANGED <<fixedVars, outFiles, prodPc, prodIdx, jobs, closed, spawned, wg,
                 mainH, pool, enq, taken, results, openHandles>>

\* main.go:64-66: the channel is made and the producer goroutine started.
Main_GoProducer ==
  /\ mainPc = "go"
  /\ mainPc' = "spawn" /\ prodPc' = "loop"
  /\ UNCHANGED <<fixedVars, outFiles, exitCode, prodIdx, jobs, closed, spawned, wg,
                 mainH, pool, enq, taken, results, printed, openHandles>>

\* main.go:67-70: one turn of the loop, wg.Add(1) and go handleWriteImageWorker.
Main_SpawnWorker ==
  /\ mainPc = "spawn"
  /\ spawned < NumWorkers
  /\ wg' = wg + 1
  /\ spawned' = spawned + 1
  /\ pool' = pool (+) SetToBag({At("recv", <<>>, "")})
  /\ mainPc' = IF spawned + 1 = NumWorkers THEN "wait" ELSE "spawn"
  /\ UNCHANGED <<fixedVars, outFiles, exitCode, prodPc, prodIdx, jobs, closed,
                 mainH, enq, taken, results, printed, openHandles>>

\* Mutant of WaitReturns: main waits for the channel to be empty, not for
\* the workers.
WaitReturns_QueueDrained == jobs = <<>>

\* wg.Wait() returns (main.go:71).
WaitReturns == wg = 0

Main_Wait ==
  /\ mainPc = "wait"
  /\ WaitReturns
  /\ mainPc' = "print"
  /\ UNCHANGED <<fixedVars, outFiles, exitCode, prodPc, prodIdx, jobs, closed, spawned,
                 wg, mainH, pool, enq, taken, results, printed, openHandles>>

\* main.go:74: handleWriteImage has returned; its error is dropped.
Main_SingleReturn ==
  /\ mainPc = "single"
  /\ mainH.pc = "ret"
  /\ mainPc' = "print"
  /\ UNCHANGED <<fixedVars, outFiles, exitCode, prodPc, prodIdx, jobs, closed, spawned,
                 wg, mainH, pool, enq, taken, results, printed, openHandles>>

\* main.go:76-77: the final notice, then main returns (exit status 0).
Main_Done ==
  /\ mainPc = "print"
  /\ printed' = printed \cup {<<"done", outFolder>>}
  /\ mainPc' = "exited" /\ exitCode' = 0
  /\ UNCHANGED <<fixedVars, outFiles, prodPc, prodIdx, jobs, closed, spawned, wg,
                 mainH, pool, enq, taken, results, openHandles>>

\* --------------------------------------------------------------- producer
\* Mutant of Eligible: subdirectories are not passed over.
Eligible_NoDirCheck(e) == Ext(e.name) \in supportedFileTypes

\* main.go:81: the entry is a job.
Eligible(e) == ~e.isDir /\ Ext(e.name) \in supportedFileTypes

\* main.go:80-84: an eligible entry is sent; the send blocks while the
\* channel's buffer is full.
\* A producer whose send never blocks.
Prod_Send_Unbounded ==
  /\ Running /\ prodPc = "loop"
  /\ prodIdx <= Len(entries)
  /\ Eligible(entries[prodIdx])
  /\ LET inFilePath == Join(inFileFolder, entries[prodIdx].name)
     IN  /\ jobs' = Append(jobs, inFilePath)
         /\ enq' = Incr(enq, inFilePath)
  /\ prodIdx' = prodIdx + 1
  /\ UNCHANGED <<fixedVars, outFiles, mainPc, exitCode, prodPc, closed, spawned, wg,
                 mainH, pool, taken, results, printed, openHandles>>

Prod_Send ==
  /\ Running /\ prodPc = "loop"
  /\ prodIdx <= Len(entries)
  /\ Eligible(entries[prodIdx])
  /\ Len(jobs) < chanCap
  /\ LET inFilePath == Join(inFileFolder, entries[prodIdx].name)
     IN  /\ jobs' = Append(jobs, inFilePath)
         /\ enq' = Incr(enq, inFilePath)
  /\ prodIdx' = prodIdx + 1
  /\ UNCHANGED <<fixedVars, outFiles, mainPc, exitCode, prodPc, closed, spawned, wg,
                 mainH, pool, taken, results, printed, openHandles>>

\* main.go:80-81: any other entry is passed over.
Prod_Skip ==
  /\ Running /\ prodPc = "loop"
  /\ prodIdx <= Len(entries)
  /\ ~Eligible(entries[prodIdx])
  /\ prodIdx' = prodIdx + 1
  /\ UNCHANGED <<fixedVars, outFiles, mainPc, exitCode, prodPc, jobs, closed, spawned, wg,
                 mainH, pool, enq, taken, results, printed, openHandles>>

\* main.go:86
\* A producer that returns without closing the channel.
Prod_Close_NoClose ==
  /\ Running /\ prodPc = "loop"
  /\ prodIdx > Len(entries)
  /\ prodPc' = "done"
  /\ UNCHANGED <<fixedVars, outFiles, mainPc, exitCode, prodIdx, jobs, closed, spawned,
                 wg, mainH, pool, enq, taken, results, printed, openHandles>>

Prod_Close ==
  /\ Running /\ prodPc = "loop"
  /\ prodIdx > Len(entries)
  /\ closed' = TRUE /\ prodPc' = "done"
  /\ UNCHANGED <<fixedVars, outFiles, mainPc, exitCode, prodIdx, jobs, spawned, wg,
                 mainH, pool, enq, taken, results, printed, openHandles>>

\* ----------------------------------------------------------------- workers
\* The goroutines that may take a step: main, and each state a worker is in.
Callers == {[who |-> "main", st |-> mainH]} \cup
           {[who |-> "worker", st |-> s] : s \in BagToSet(pool)}
WorkerStates == {p \in Callers : p.who = "worker"}

\* Goroutine p moves to state st.
Become(p, st) ==
  IF p.who = "main"
  THEN mainH' = st /\ pool' = pool
  ELSE mainH' = mainH /\ pool' = (pool (-) SetToBag({p.st})) (+) SetToBag({st})

\* Mutant of AfterReceive: the job received stays in the channel.
AfterReceive_Peek(q) == q

\* main.go:91: what stays in the channel after a receive.
AfterReceive(q) == Tail(q)

\* main.go:91: the range loop receives the next job.
W_Recv(p) ==
  /\ Running /\ p.st.pc = "recv"
  /\ jobs # <<>>
  /\ Become(p, At("open", Head(jobs), ""))
  /\ taken' = Incr(taken, Head(jobs))
  /\ jobs' = AfterReceive(jobs)
  /\ UNCHANGED <<fixedVars, outFiles, mainPc, exitCode, prodPc, prodIdx, closed, spawned,
                 wg, enq, results, printed, openHandles>>

\* main.go:90-91: the channel is closed and drained; the loop ends and the
\* deferred wg.Done() runs.
W_Exit(p) ==
  /\ Running /\ p.st.pc = "recv"
  /\ jobs = <<>> /\ closed
  /\ Become(p, At("exit", <<>>, ""))
  /\ wg' = wg - 1
  /\ UNCHANGED <<fixedVars, outFiles, mainPc, exitCode, prodPc, prodIdx, jobs, closed,
                 spawned, enq, taken, results, printed, openHandles>>

\* Mutant of AfterJob: the worker returns on the first error.
AfterJob_StopOnError(outcome) == IF outcome = "failed" THEN "exit" ELSE "recv"

\* main.go:92-97: where a worker goes once handleWriteImage has returned
\* with the given outcome: it logs an error and takes the next job.
AfterJob(outcome) == "recv"

\* handleWriteImage returns in goroutine p.  A worker prints the error, if
\* any, with the input path (main.go:93-96); main drops it (main.go:74).
Finish(p, rec, lines) ==
  /\ results' = results \cup {rec}
  /\ IF p.who = "main"
     THEN /\ Become(p, At("ret", p.st.job, ""))
          /\ printed' = printed \cup lines
          /\ wg' = wg
     ELSE /\ Become(p, At(AfterJob(rec.outcome), <<>>, ""))
          /\ printed' = printed \cup lines \cup
                        (IF rec.outcome = "failed" THEN {<<"failed", p.st.job>>} ELSE {})
          /\ wg' = IF AfterJob(rec.outcome) = "exit" THEN wg - 1 ELSE wg

\* handleWriteImage goes on in goroutine p.
Continue(p, st, lines) ==
  /\ Become(p, st)
  /\ printed' = printed \cup lines
  /\ UNCHANGED <<wg, results>>

\* The outcome of one call of handleWriteImage: "written", "skipped" or
\* "failed" (with its cause), the path created, the output format and the
\* encoder used, and the number of files the call opened and left open.
Result(q, outcome, cause, out, fmt, enc, open) ==
  [path |-> q, outcome |-> outcome, cause |-> cause, out |-> out, fmt |-> fmt,
   enc |-> enc, open |-> open]

\* main.go:112-113: the path whose existence is tested.
OutImgPath(inFilePath) == Join(outFolder, Base(inFilePath))

\* main.go:114: the job is skipped.
SkipExisting(exists) == OW_OUT /\ exists

\* Mutant of ImgOutFmt: the input's format is kept whatever -fmt says.
ImgOutFmt_KeepInput(imgInFmt) == imgInFmt

\* main.go:124-127
ImgOutFmt(imgInFmt) == IF OUT_FMT # "auto" THEN OUT_FMT ELSE imgInFmt

\* main.go:128: the path that is written.
OutPath(outImgPath, imgOutFmt) ==
  TrimSuffix(outImgPath, Ext(outImgPath)) \o <<".">> \o Chars(imgOutFmt)

\* main.go:134-140: the encoder the switch picks, "" if none.
Encoder(imgOutFmt) ==
  CASE imgOutFmt = "png" -> "png"
    [] imgOutFmt \in {"jpg", "jpeg"} -> "jpeg"
    [] OTHER -> ""

\* main.go:101-111: os.Open and image.Decode.  The opened file is never closed.
H_OpenDecode(p) ==
  /\ Running /\ p.st.pc = "open"
  /\ LET f == FileAt(p.st.job)
     IN  IF ~f.perm
         THEN /\ Finish(p, Result(p.st.job, "failed", "open", <<>>, "", "", 0), {})
              /\ UNCHANGED openHandles
         ELSE /\ openHandles' = openHandles + 1
              /\ IF Decode(f) = ""
                 THEN Finish(p, Result(p.st.job, "failed", "decode", <<>>, "", "", 1), {})
                 ELSE Continue(p, At("stat", p.st.job, Decode(f)), {})
  /\ UNCHANGED <<fixedVars, outFiles, mainPc, exitCode, prodPc, prodIdx, jobs, closed,
                 spawned, enq, taken>>

\* main.go:112-118: os.Stat of the output path and the decision to skip.
H_Stat(p) ==
  /\ Running /\ p.st.pc = "stat"
  /\ LET outImgBaseName == Base(p.st.job)
         outImgPath == OutImgPath(p.st.job)
     IN  IF SkipExisting(outImgPath \in DOMAIN outFiles)
         THEN Finish(p, Result(p.st.job, "skipped", "", <<>>, "", "", 1),
                     {<<"skipping", outImgBaseName>>})
         ELSE Continue(p, At("create", p.st.job, p.st.fmt), {<<"adding", outImgBaseName>>})
  /\ UNCHANGED <<fixedVars, outFiles, mainPc, exitCode, prodPc, prodIdx, jobs, closed,
                 spawned, enq, taken, openHandles>>

\* main.go:123-132: os.Create makes or truncates the file at the output
\* path; it fails where a directory is in the way.  The file is never closed.
H_Create(p) ==
  /\ Running /\ p.st.pc = "create"
  /\ LET imgOutFmt == ImgOutFmt(p.st.fmt)
         outPath == OutPath(OutImgPath(p.st.job), imgOutFmt)
     IN  IF outPath \in DOMAIN outFiles /\ outFiles[outPath].kind = "dir"
         THEN /\ Finish(p, Result(p.st.job, "failed", "create", outPath, imgOutFmt, "", 1), {})
              /\ UNCHANGED <<outFiles, openHandles>>
         ELSE /\ outFiles' = Put(outFiles, outPath,
                                 [kind |-> "file", enc |-> "empty", src |-> p.st.job, ws |-> {}])
              /\ openHandles' = openHandles + 1
              /\ Continue(p, At("encode", p.st.job, p.st.fmt), {})
  /\ UNCHANGED <<fixedVars, mainPc, exitCode, prodPc, prodIdx, jobs, closed,
                 spawned, enq, taken>>

\* main.go:134-140: the image is encoded into the created file, or the
\* format is refused.  Two goroutines that write the same file since it was
\* last truncated leave bytes of both ("mixed").
H_Encode(p) ==
  /\ Running /\ p.st.pc = "encode"
  /\ LET imgOutFmt == ImgOutFmt(p.st.fmt)
         outPath == OutPath(OutImgPath(p.st.job), imgOutFmt)
         ws == outFiles[outPath].ws \cup {p.st.job}
     IN  IF Encoder(imgOutFmt) = ""
         THEN /\ Finish(p, Result(p.st.job, "failed", "format", outPath, imgOutFmt, "", 2), {})
              /\ UNCHANGED outFiles
         ELSE /\ outFiles' = Put(outFiles, outPath,
                                 [kind |-> "file",
                                  enc |-> IF Cardinality(ws) = 1 THEN Encoder(imgOutFmt) ELSE "mixed",
                                  src |-> p.st.job, ws |-> ws])
              /\ Finish(p, Result(p.st.job, "written", "", outPath, imgOutFmt,
                             Encoder(imgOutFmt), 2), {})
  /\ UNCHANGED <<fixedVars, mainPc, exitCode, prodPc, prodIdx, jobs, closed,
                 spawned, enq, taken, openHandles>>

\* ------------------------------------------------------ the run, as a whole
\* SpecCard's and SpecBleed's variables while a run is modelled.
CardIdle ==
  /\ JPG_CORNER_FIX = FALSE /\ cardW = 0 /\ cardH = 0 /\ cardFmt = "" /\ cardSeed = 0
  /\ cardPc = "off" /\ cardOut = <<>> /\ cardFixed = FALSE /\ cardPre = <<>>
BleedIdle ==
  /\ bW = 0 /\ bH = 0 /\ bPx = 0 /\ bPrevPx = 0 /\ bOutW = 0 /\ bOutH = 0

Init == InitRun /\ chanCap = QueueCap /\ CardIdle /\ BleedIdle

Next ==
  \/ Main_MkdirAll \/ Main_Stat \/ Main_ReadDir \/ Main_GoProducer
  \/ Main_SpawnWorker \/ Main_Wait \/ Main_SingleReturn \/ Main_Done
  \/ Prod_Send \/ Prod_Skip \/ Prod_Close
  \/ \E p \in WorkerStates : W_Recv(p)
  \/ \E p \in WorkerStates : W_Exit(p)
  \/ \E p \in Callers : H_OpenDecode(p)
  \/ \E p \in Callers : H_Stat(p)
  \/ \E p \in Callers : H_Create(p)
  \/ \E p \in Callers : H_Encode(p)

Spec == Init /\ [][Next]_vars

\* The same program with the channel made with capacity MaxChan instead of
\* QueueCap, so that a listing of MaxEntries files holds more jobs than the
\* channel; and with a scheduler that lets some goroutine that can run, run
\* (the Go scheduler runs every runnable goroutine).
\* The runs start with an empty output folder: what the folder holds decides
\* what a job does, not when the goroutines run.
InitSmallChan ==
  /\ InitRun /\ outFiles = NoFiles
  /\ chanCap = MaxChan /\ CardIdle /\ BleedIdle
SpecSmallChan == InitSmallChan /\ [][Next]_vars /\ WF_vars(Next)

\* ------------------------------------------------------ bleed width (pure)
\* math.Round of the quotient n/d of two non-negative integers: half away
\* from zero.  The code rounds float64(cardWidth)*0.24/2.48; 3W/31 is never
\* closer than 1/62 to a half-integer, far more than float64's error at any
\* width an image has, so the float64 result is the exact one.
Round(n, d) == (2 * n + d) \div (2 * d)

\* Mutant of calculateBleedWidth: the rounded quotient is not halved.
calculateBleedWidth_NoHalf(cardWidth) == Round(cardWidth * bleedWidth, widthNoBleed)

\* main.go:213-218: int(math.Round(float64(cardWidth)*bleedWidth/widthNoBleed)) / 2
calculateBleedWidth(cardWidth) == Round(cardWidth * bleedWidth, widthNoBleed) \div 2

\* image.Rect: the rectangle with the given corners, put in canonical order.
Rect(x0, y0, x1, y1) ==
  [minX |-> IF x0 <= x1 THEN x0 ELSE x1, minY |-> IF y0 <= y1 THEN y0 ELSE y1,
   maxX |-> IF x0 <= x1 THEN x1 ELSE x0, maxY |-> IF y0 <= y1 THEN y1 ELSE y0]
Dx(r) == r.maxX - r.minX
Dy(r) == r.maxY - r.minY
\* image.Point.In
InRect(x, y, r) == r.minX <= x /\ x < r.maxX /\ r.minY <= y /\ y < r.maxY
Points(r) == (r.minX .. r.maxX - 1) \X (r.minY .. r.maxY - 1)

\* main.go:147
cardWithBleedBounds(w, h) ==
  Rect(0, 0, w + calculateBleedWidth(w) * 2, h + calculateBleedWidth(w) * 2)
\* Mutant of cardNoBleedBounds: the card is moved right but not down.
cardNoBleedBounds_XOnly(w, h) ==
  [minX |-> calculateBleedWidth(w), minY |-> 0,
   maxX |-> w + calculateBleedWidth(w), maxY |-> h]

\* main.go:149: cardImg.Bounds().Add(image.Point{bleedEdgePx, bleedEdgePx})
cardNoBleedBounds(w, h) ==
  [minX |-> calculateBleedWidth(w), minY |-> calculateBleedWidth(w),
   maxX |-> w + calculateBleedWidth(w), maxY |-> h + calculateBleedWidth(w)]

\* ---- SpecBleed: calculateBleedWidth over the widths 1..MaxWidth
BleedHeights == {1, 1050}

RunIdle ==
  /\ mkdirOk = TRUE /\ rootKind = "dir" /\ inFileFolder = inDir /\ entries = <<>>
  /\ chanCap = QueueCap
  /\ OW_OUT = FALSE /\ OUT_FMT = "png" /\ outFiles = NoFiles
  /\ mainPc = "off" /\ exitCode = -1 /\ prodPc = "off" /\ prodIdx = 1
  /\ jobs = <<>> /\ closed = FALSE /\ spawned = 0 /\ wg = 0
  /\ mainH = At("off", <<>>, "") /\ pool = EmptyBag
  /\ enq = NoFiles /\ taken = NoFiles /\ results = {} /\ printed = {}
  /\ openHandles = 0

InitBleed ==
  /\ RunIdle /\ CardIdle
  /\ bW = 1 /\ bH \in BleedHeights
  /\ bPrevPx = calculateBleedWidth(0)
  /\ bPx = calculateBleedWidth(1)
  /\ bOutW = Dx(cardWithBleedBounds(1, bH))
  /\ bOutH = Dy(cardWithBleedBounds(1, bH))

\* The next width.
Bleed_Step ==
  /\ bW < MaxWidth
  /\ bW' = bW + 1
  /\ bPrevPx' = bPx
  /\ bPx' = calculateBleedWidth(bW + 1)
  /\ bOutW' = Dx(cardWithBleedBounds(bW + 1, bH))
  /\ bOutH' = Dy(cardWithBleedBounds(bW + 1, bH))
  /\ UNCHANGED <<bH, runVars, cardVars>>

SpecBleed == InitBleed /\ [][Bleed_Step]_vars

\* ------------------------------------------------- compositing (SpecCard)
\* A pixel as Color.RGBA() reports it, scaled to 8 bits: one colour channel
\* c (the three are treated alike by every operation here), alpha-premultiplied,
\* and the alpha a.
Pixel(c, a) == [c |-> c, a |-> a]
\* main.go:41
BLACK == Pixel(0, 255)
\* image.NewRGBA: every pixel transparent.
Transparent == Pixel(0, 0)

\* draw.Over: the source pixel s composited over d.
Over(s, d) ==
  Pixel(s.c + (d.c * (255 - s.a)) \div 255, s.a + (d.a * (255 - s.a)) \div 255)

\* The decoded cards tried: the pixels of a PNG may be translucent or
\* transparent, those of a JPEG are opaque.
MaxSeed == 3
Palette(fmt) ==
  IF fmt = "png"
  THEN <<Pixel(255, 255), Pixel(90, 255), Pixel(60, 128), Pixel(0, 0)>>
  ELSE <<Pixel(255, 255), Pixel(90, 255), Pixel(200, 255), Pixel(17, 255)>>
\* cardImg.At(x, y) of the card of format fmt chosen by seed.
CardAt(fmt, seed, x, y) == Palette(fmt)[((3 * x + 5 * y + seed) % 4) + 1]

\* An image: its bounds and its pixels.
Image(r, pix) == [bounds |-> r, pix |-> pix]
Intersect(r, q) ==
  [minX |-> IF r.minX >= q.minX THEN r.minX ELSE q.minX,
   minY |-> IF r.minY >= q.minY THEN r.minY ELSE q.minY,
   maxX |-> IF r.maxX <= q.maxX THEN r.maxX ELSE q.maxX,
   maxY |-> IF r.maxY <= q.maxY THEN r.maxY ELSE q.maxY]

\* draw.Draw(img, r, &image.Uniform{C: colour}, image.Point{}, op): the
\* pixels of r that lie in the image are set (draw.Src) or composited
\* (draw.Over).
DrawUniform(img, r, colour, op) ==
  Image(img.bounds,
        [q \in DOMAIN img.pix |->
           IF InRect(q[1], q[2], Intersect(r, img.bounds))
           THEN IF op = "Src" THEN colour ELSE Over(colour, img.pix[q])
           ELSE img.pix[q]])

\* draw.Draw(img, r, card, image.Point{}, draw.Over): the card's pixel
\* (x - r.minX, y - r.minY) goes over the pixel (x, y) of r, as far as the
\* card (w by h, at the origin) reaches.
DrawCard(img, r, fmt, seed, w, h) ==
  LET clip == Intersect(Intersect(r, img.bounds),
                        Rect(r.minX, r.minY, r.minX + w, r.minY + h))
  IN  Image(img.bounds,
            [q \in DOMAIN img.pix |->
               IF InRect(q[1], q[2], clip)
               THEN Over(CardAt(fmt, seed, q[1] - r.minX, q[2] - r.minY), img.pix[q])
               ELSE img.pix[q]])

\* main.go:168: int(float64(bleedWidth) * 0.75)
\* Squares of the full bleed width.
rectWidth_Full(bleedPx) == bleedPx

rectWidth(bleedPx) == (bleedPx * 3) \div 4

\* main.go:172-190: the eight rectangles, in the order they are drawn.
\* The rectangles drawn away from the card, into the margin.
CornerRects_Outward(bleedPx, inner) ==
  LET rw == rectWidth(bleedPx)
      x0 == inner.minX
      y0 == inner.minY
      x1 == inner.maxX
      y1 == inner.maxY
  IN  << Rect(x0, y0, x0 - rw, y0 - bleedPx), Rect(x0, y0, x0 - bleedPx, y0 - rw),
         Rect(x1, y0, x1 + rw, y0 - bleedPx), Rect(x1, y0, x1 + bleedPx, y0 - rw),
         Rect(x1, y1, x1 + rw, y1 + bleedPx), Rect(x1, y1, x1 + bleedPx, y1 + rw),
         Rect(x0, y1, x0 - rw, y1 + bleedPx), Rect(x0, y1, x0 - bleedPx, y1 + rw) >>

CornerRects(bleedPx, inner) ==
  LET rw == rectWidth(bleedPx)
      x0 == inner.minX
      y0 == inner.minY
      x1 == inner.maxX
      y1 == inner.maxY
  IN  << Rect(x0, y0, x0 + rw, y0 + bleedPx), Rect(x0, y0, x0 + bleedPx, y0 + rw),
         Rect(x1, y0, x1 - rw, y0 + bleedPx), Rect(x1, y0, x1 - bleedPx, y0 + rw),
         Rect(x1, y1, x1 - rw, y1 - bleedPx), Rect(x1, y1, x1 - bleedPx, y1 - rw),
         Rect(x0, y1, x0 + rw, y1 - bleedPx), Rect(x0, y1, x0 + bleedPx, y1 - rw) >>

\* main.go:166-193
fixCorners(img, bleedPx, innerCardBounds) ==
  LET rects == CornerRects(bleedPx, innerCardBounds)
      F[i \in 0..Len(rects)] ==
        IF i = 0 THEN img ELSE DrawUniform(F[i - 1], rects[i], BLACK, "Over")
  IN  F[Len(rects)]

\* main.go:31
cornerFix == TRUE

\* main.go:158: the corners of this card are repaired.
CornerFixApplies(inImgFormat) == cornerFix /\ inImgFormat \in {"jpg", "jpeg"}

\* main.go:143-163
\* main.go:151-156: the card drawn over a black image of the outer size.
cardOnBlack(fmt, seed, w, h) ==
  LET outer == cardWithBleedBounds(w, h)
      inner == cardNoBleedBounds(w, h)
      blank == Image(outer, [q \in Points(outer) |-> Transparent])
      black == DrawUniform(blank, outer, BLACK, "Src")
  IN  DrawCard(black, inner, fmt, seed, w, h)

createCardWithBleed(fmt, seed, w, h) ==
  LET bleedEdgePx == calculateBleedWidth(w)
      inner == cardNoBleedBounds(w, h)
      card == cardOnBlack(fmt, seed, w, h)
  IN  IF CornerFixApplies(fmt) THEN fixCorners(card, bleedEdgePx, inner) ELSE card

InitCard ==
  /\ RunIdle /\ BleedIdle
  /\ JPG_CORNER_FIX \in BOOLEAN
  /\ cardW \in 1..MaxCardW /\ cardH \in 1..MaxCardH
  /\ cardFmt \in {"png", "jpeg"}
  /\ cardSeed \in 0..MaxSeed
  /\ cardPc = "decoded" /\ cardOut = <<>> /\ cardFixed = FALSE /\ cardPre = <<>>

\* main.go:111: newImg := createCardWithBleed(img, newImgFormat)
Card_Create ==
  /\ cardPc = "decoded"
  /\ cardOut' = createCardWithBleed(cardFmt, cardSeed, cardW, cardH)
  /\ cardPre' = cardOnBlack(cardFmt, cardSeed, cardW, cardH)
  /\ cardFixed' = CornerFixApplies(cardFmt)
  /\ cardPc' = "done"
  /\ UNCHANGED <<JPG_CORNER_FIX, cardW, cardH, cardFmt, cardSeed, runVars, bleedVars>>

SpecCard == InitCard /\ [][Card_Create]_vars

\* ================================================================= claims
\* Helpers of the statements below.
DoneLine == <<"done", outFolder>>
\* The results recorded for input path q.
ResultsOf(q) == {r \in results : r.path = q}
\* The number of workers holding job q.
HeldBy(q) ==
  LET S == {s \in BagToSet(pool) : s.job = q}
      Sum[T \in SUBSET S] ==
        IF T = {} THEN 0
        ELSE LET t == CHOOSE t \in T : TRUE IN pool[t] + Sum[T \ {t}]
  IN  Sum[S]
\* The number of times q is in the channel.
InQueue(q) == Cardinality({i \in 1..Len(jobs) : jobs[i] = q})
\* p ends with suf.
EndsWith(p, suf) ==
  Len(suf) <= Len(p) /\ \A i \in 1..Len(suf) : p[Len(p) - Len(suf) + i] = suf[i]

\* ---- C1
\* C1 (as claimed): with the overwrite option disabled, a file that is
\* already in the output folder when a job reaches it is left as it is: no
\* step of a run changes or replaces a file that was there before the run.
C1_ExistingOutputUntouched ==
  [][ ~OW_OUT =>
        \A q \in DOMAIN outFiles :
          outFiles[q].enc = "old" => (q \in DOMAIN outFiles' /\ outFiles'[q] = outFiles[q]) ]_vars

\* ---- C2
\* A job whose input cannot be opened or decoded.
BadInput(q) == ~FileAt(q).perm \/ FileAt(q).data \notin {"png", "jpeg"}
\* Nothing but the input can make a job fail: the configured format has an
\* encoder and no directory stands in the output folder.
GoodSetup ==
  /\ OUT_FMT \in {"auto", "png", "jpg", "jpeg"}
  /\ \A q \in DOMAIN outFiles : outFiles[q].kind = "file"

\* C2: in a directory run no worker ends before the channel is closed and
\* drained, whatever failed; and once the run is over every job that was
\* queued has exactly one outcome: "failed", with a printed report naming its
\* path, if its input is bad, and "written" or "skipped" if nothing is wrong
\* with its input or with the setup.
C2_FailuresAreIsolated ==
  rootKind = "dir" =>
    /\ NumAt("exit") > 0 => (closed /\ jobs = <<>>)
    /\ mainPc \in {"print", "exited"} =>
         \A q \in DOMAIN enq :
           /\ Cardinality(ResultsOf(q)) = 1
           /\ \A r \in ResultsOf(q) :
                /\ BadInput(q) => r.outcome = "failed"
                /\ r.outcome = "failed" => <<"failed", q>> \in printed
                /\ (~BadInput(q) /\ GoodSetup) => r.outcome \in {"written", "skipped"}

\* C2 witness: a finished directory run in which one job failed and another
\* was written.
C2_Witness ==
  /\ rootKind = "dir" /\ mainPc = "exited"
  /\ \E r1, r2 \in results : r1.outcome = "failed" /\ r2.outcome = "written"

\* ---- C3
\* C3: in a directory run, once main is past wg.Wait() (and so whenever the
\* final notice has been printed) the channel is closed and empty, all 8
\* workers have exited, and every queued job has an outcome.
C3_DoneAfterAllWorkers ==
  (rootKind = "dir" /\ (mainPc = "print" \/ DoneLine \in printed)) =>
    /\ closed /\ jobs = <<>>
    /\ NumAt("exit") = NumWorkers
    /\ \A q \in DOMAIN enq :
         \E r \in ResultsOf(q) : r.outcome \in {"written", "skipped", "failed"}

\* C3 witness: the notice is printed after a directory run with two jobs.
C3_Witness ==
  rootKind = "dir" /\ DoneLine \in printed /\ Cardinality(DOMAIN enq) = 2

\* ---- C4
\* C4: every job the producer has sent is, at any moment, either in the
\* channel once, or held by exactly one worker, or finished with one result,
\* and it has been received at most once.
C4_EachJobConsumedOnce ==
  \A q \in DOMAIN enq :
    /\ enq[q] = 1
    /\ Count(taken, q) <= 1
    /\ InQueue(q) + Count(taken, q) = 1
    /\ HeldBy(q) + Cardinality(ResultsOf(q)) = Count(taken, q)

\* C4 witness: two jobs were sent and each was received and finished.
C4_Witness ==
  /\ Cardinality(DOMAIN enq) = 2
  /\ \A q \in DOMAIN enq : Count(taken, q) = 1 /\ ResultsOf(q) # {}

\* ---- C5
\* C5 (as claimed): when the input path does not exist or cannot be listed,
\* no job gets anywhere and the output folder stays as it was, the final
\* notice is not printed, and the run ends with the error printed and an
\* exit status other than 0.
C5_BadRootIsFatal ==
  rootKind \in {"missing", "dirUnreadable"} =>
    /\ \A r \in results : r.outcome = "failed"
    /\ outFiles \in InitialOutFolders
    /\ DoneLine \notin printed
    /\ mainPc = "exited" => (exitCode # 0 /\ printed # {})

\* ---- C6
\* The paths of the direct entries of the listing that are not
\* subdirectories and whose name ends, in these very letters, with .png,
\* .jpg or .jpeg.
ExpectedJobs ==
  { Join(inFileFolder, entries[i].name) : i \in
      { j \in 1..Len(entries) :
          /\ ~entries[j].isDir
          /\ \/ EndsWith(entries[j].name, <<".", "p", "n", "g">>)
             \/ EndsWith(entries[j].name, <<".", "j", "p", "g">>)
             \/ EndsWith(entries[j].name, <<".", "j", "p", "e", "g">>) } }

\* C6: in a directory run only expected jobs are ever sent, received or
\* processed, each is sent once, and when the producer has closed the channel
\* every expected job has been sent.
C6_QueuedExactlyTheEligible ==
  rootKind = "dir" =>
    /\ DOMAIN enq \subseteq ExpectedJobs
    /\ \A q \in DOMAIN enq : enq[q] = 1
    /\ DOMAIN taken \subseteq ExpectedJobs
    /\ \A r \in results : r.path \in ExpectedJobs
    /\ prodPc = "done" => DOMAIN enq = ExpectedJobs

\* C6 witness: the producer is through a listing of which it queued one
\* entry and passed over another.
C6_Witness ==
  /\ rootKind = "dir" /\ prodPc = "done"
  /\ Len(entries) = 2 /\ Cardinality(DOMAIN enq) = 1

\* ---- C7
\* C7 (as claimed): corner repair is applied to a card exactly when the
\* corner-fix option is enabled and the decoded format is jpg or jpeg.
C7_RepairOnlyIfOptionAndJpeg ==
  cardPc = "done" =>
    (cardFixed <=> (JPG_CORNER_FIX /\ cardFmt \in {"jpg", "jpeg"}))

\* ---- C8
\* The computed bleed of the card at hand.
CardBleedPx == calculateBleedWidth(cardW)
\* The output has the size (W + 2*bleedPx, H + 2*bleedPx).
CardSizeOk ==
  /\ cardOut.bounds = [minX |-> 0, minY |-> 0,
                       maxX |-> cardW + 2 * CardBleedPx, maxY |-> cardH + 2 * CardBleedPx]
  /\ DOMAIN cardOut.pix = (0 .. cardW + 2 * CardBleedPx - 1) \X (0 .. cardH + 2 * CardBleedPx - 1)

\* C8 (as claimed): the output has that size and its region at offset
\* (bleedPx, bleedPx) of size (W, H) is pixel for pixel the input, for every
\* format and configuration.
C8_RegionIdentical ==
  cardPc = "done" =>
    /\ CardSizeOk
    /\ \A x \in 0 .. cardW - 1, y \in 0 .. cardH - 1 :
         cardOut.pix[<<x + CardBleedPx, y + CardBleedPx>>] = CardAt(cardFmt, cardSeed, x, y)

\* C8 (amended): the output has that size, and each pixel of that region is
\* the input's pixel over opaque black (its colour, with alpha 255; so the
\* input's pixel itself where it is opaque), except that for a jpg/jpeg
\* source the pixels inside the corner-repair rectangles are opaque black.
C8_RegionIsCardOverBlack ==
  cardPc = "done" =>
    /\ CardSizeOk
    /\ \A x \in 0 .. cardW - 1, y \in 0 .. cardH - 1 :
         LET got == cardOut.pix[<<x + CardBleedPx, y + CardBleedPx>>]
             src == CardAt(cardFmt, cardSeed, x, y)
             rects == CornerRects(CardBleedPx,
                                  [minX |-> CardBleedPx, minY |-> CardBleedPx,
                                   maxX |-> cardW + CardBleedPx, maxY |-> cardH + CardBleedPx])
             repaired == /\ cardFmt \in {"jpg", "jpeg"}
                         /\ \E i \in 1..Len(rects) :
                              InRect(x + CardBleedPx, y + CardBleedPx, rects[i])
         IN  /\ repaired => got = [c |-> 0, a |-> 255]
             /\ ~repaired => got = [c |-> src.c, a |-> 255]
             /\ (~repaired /\ src.a = 255) => got = src

\* C8 witness: a PNG card wide enough to have a bleed has been composited,
\* and one of its pixels is not opaque while another has come out as it was.
C8_Witness ==
  /\ cardPc = "done" /\ cardFmt = "png" /\ CardBleedPx >= 2
  /\ \E x \in 0 .. cardW - 1, y \in 0 .. cardH - 1 : CardAt(cardFmt, cardSeed, x, y).a < 255
  /\ \E x \in 0 .. cardW - 1, y \in 0 .. cardH - 1 :
       /\ CardAt(cardFmt, cardSeed, x, y).c > 0
       /\ cardOut.pix[<<x + CardBleedPx, y + CardBleedPx>>] = CardAt(cardFmt, cardSeed, x, y)

\* ---- C9
\* C9: the bleed of width W is floor(k/2), k being the integer nearest to
\* 3W/31 (a tie would go away from zero); it is not below the bleed of
\* W - 1; and W = 750 gives 36, and an 822x1122 output for a 750x1050 input.
C9_BleedWidthFormula ==
  bW >= 1 =>
    /\ \E k \in 0 .. bW :
         /\ 2 * (31 * k - 3 * bW) <= 31 /\ 2 * (3 * bW - 31 * k) < 31
         /\ bPx = k \div 2
    /\ bPrevPx <= bPx
    /\ bW = 750 => bPx = 36
    /\ (bW = 750 /\ bH = 1050) => (bOutW = 822 /\ bOutH = 1122)

\* C9 witness: the width 750 of a 750x1050 card has been reached.
C9_Witness == bW = 750 /\ bH = 1050 /\ bPx = 36

\* ---- C10
\* The name with its extension (from the last dot on) taken off.
Stem(name) ==
  IF LastIndex(name, ".") = 0 THEN name ELSE SubSeq(name, 1, LastIndex(name, ".") - 1)

\* C10: every job that wrote its output used the detected format of its input
\* if the configured format is "auto" and the configured format otherwise,
\* encoded with the encoder of that format, into the file
\* <output folder>/<input base name, extension replaced by that format>; in
\* a single-file run that file then holds exactly this encoding.
C10_FormatAndPathResolved ==
  \A r \in results :
    r.outcome = "written" =>
      LET e == FileAt(r.path)
          resolved == IF OUT_FMT = "auto" THEN e.data ELSE OUT_FMT
      IN  /\ r.fmt = resolved
          /\ r.enc = (IF resolved = "png" THEN "png" ELSE "jpeg")
          /\ resolved \in {"png", "jpg", "jpeg"}
          /\ r.out = outFolder \o <<"/">> \o Stem(e.name) \o <<".">> \o Chars(resolved)
          /\ r.out \in DOMAIN outFiles /\ outFiles[r.out].kind = "file"
          /\ rootKind = "file" => (outFiles[r.out].enc = r.enc /\ outFiles[r.out].src = r.path)

\* C10 witness: with format "auto" a JPEG named a.jpg has been written as
\* a.jpeg.
C10_Witness ==
  /\ OUT_FMT = "auto"
  /\ \E r \in results :
       /\ r.outcome = "written" /\ r.fmt = "jpeg"
       /\ r.out = Join(outFolder, <<"a", ".", "j", "p", "e", "g">>)

----------------------------------------------------------------------------
\* C11: under fair scheduling every directory run terminates, whether the
\* listing holds no eligible file or more eligible files than the channel
\* has room for: the producer has enqueued every eligible file and closed
\* the channel, each of the eight workers has seen the closure and left its
\* loop, main has passed the barrier; and no state of a run that has not
\* ended is a deadlock.
DirRunEnded ==
  /\ mainPc = "exited"
  /\ exitCode = 0 =>
       /\ prodPc = "done" /\ closed /\ jobs = <<>>
       /\ DOMAIN enq = ExpectedJobs
       /\ NumAt("exit") = NumWorkers /\ wg = 0

C11_DirectoryRunTerminates ==
  /\ (rootKind = "dir") ~> DirRunEnded
  /\ [](Running => ENABLED Next)

C11_Witness ==
  /\ rootKind = "dir" /\ DirRunEnded /\ exitCode = 0
  /\ Cardinality(DOMAIN enq) > chanCap

----------------------------------------------------------------------------
\* C12: in every reachable state the channel holds at most as many paths as
\* its capacity, and the producer, when it stands at a send, can send
\* exactly when the channel holds fewer paths than its capacity: it blocks
\* on a full channel and can go on as soon as a worker has received.
ProducerAtSend ==
  /\ Running /\ prodPc = "loop"
  /\ prodIdx <= Len(entries)
  /\ Eligible(entries[prodIdx])

C12_QueueWithinCapacity ==
  /\ Len(jobs) <= chanCap
  /\ ProducerAtSend => (ENABLED Prod_Send <=> Len(jobs) < chanCap)
  /\ ~ProducerAtSend => ~ENABLED Prod_Send

C12_Witness ==
  ProducerAtSend /\ Len(jobs) = chanCap /\ ~ENABLED Prod_Send

----------------------------------------------------------------------------
\* C13: every job that ends in failure, in a run on a folder and in a run
\* on one file alike, has a failure report naming its input path printed by
\* the time the run is over: no error of a job is dropped.
C13_EveryFailureReported ==
  (rootKind \in {"dir", "file"} /\ mainPc = "exited") =>
    \A r \in results :
      r.outcome = "failed" => <<"failed", r.path>> \in printed

----------------------------------------------------------------------------
\* C14: with -w given, no job is skipped because its output file exists: a
\* job whose output file is already there writes it anew; so no job of
\* such a run ends as skipped, and none prints that it skips.
C14_OverwriteNeverSkips ==
  OW_OUT =>
    /\ \A r \in results : r.outcome # "skipped"
    /\ \A l \in printed : l[1] # "skipping"

----------------------------------------------------------------------------
\* C15: the path whose existence the overwrite policy tests is the very
\* path the job then writes: every job that wrote a file wrote it at the
\* path handleWriteImage passed to os.Stat.
C15_TestedPathIsWrittenPath ==
  \A r \in results :
    r.outcome = "written" => r.out = OutImgPath(r.path)

----------------------------------------------------------------------------
\* C18: distinct jobs resolve to distinct output paths, a.png and a.jpg
\* included, so no two jobs of a run write the same output file: no two
\* goroutines are creating or encoding the same path, no two results name
\* the same written path, and no file has had two writers.
WritingAt(s) ==
  IF s.pc \in {"create", "encode"}
  THEN {OutPath(OutImgPath(s.job), ImgOutFmt(s.fmt))}
  ELSE {}

C18_DistinctJobsDistinctOutputs ==
  /\ \A s, t \in BagToSet(pool) :
       (s.job # t.job) => WritingAt(s) \cap WritingAt(t) = {}
  /\ \A r1, r2 \in results :
       (r1.outcome = "written" /\ r2.outcome = "written" /\ r1.path # r2.path)
         => r1.out # r2.out
  /\ \A q \in DOMAIN outFiles : Cardinality(outFiles[q].ws) <= 1

----------------------------------------------------------------------------
\* The inner (original-image) rectangle and the outer bounds of the card
\* held in the state.
InnerRect ==
  [minX |-> CardBleedPx, minY |-> CardBleedPx,
   maxX |-> cardW + CardBleedPx, maxY |-> cardH + CardBleedPx]
OuterRect ==
  [minX |-> 0, minY |-> 0,
   maxX |-> cardW + 2 * CardBleedPx, maxY |-> cardH + 2 * CardBleedPx]

\* (x, y) lies in one of the eight rectangles of floor(0.75*bleedPx) by
\* bleedPx, two per corner of the inner rectangle, each running from its
\* corner along the two sides that meet there.
InRepairRect(x, y) ==
  LET b == CardBleedPx
      rw == (3 * b) \div 4
      From(v, a, len) == a <= v /\ v < a + len
      UpTo(v, a, len) == a - len <= v /\ v < a
      x0 == InnerRect.minX
      y0 == InnerRect.minY
      x1 == InnerRect.maxX
      y1 == InnerRect.maxY
  IN  \/ From(x, x0, rw) /\ From(y, y0, b)
      \/ From(x, x0, b) /\ From(y, y0, rw)
      \/ UpTo(x, x1, rw) /\ From(y, y0, b)
      \/ UpTo(x, x1, b) /\ From(y, y0, rw)
      \/ UpTo(x, x1, rw) /\ UpTo(y, y1, b)
      \/ UpTo(x, x1, b) /\ UpTo(y, y1, rw)
      \/ From(x, x0, rw) /\ UpTo(y, y1, b)
      \/ From(x, x0, b) /\ UpTo(y, y1, rw)

\* C16: the corner repair changes only pixels inside the eight rectangles
\* of floor(0.75*bleedPx) by bleedPx, two per corner of the inner rectangle
\* and mirrored from corner to corner: after the repair every pixel inside
\* them is opaque black and every pixel outside them is as it was before.
C16_RepairOnlyInCornerRects ==
  (cardPc = "done" /\ cardFixed) =>
    /\ cardOut.bounds = cardPre.bounds
    /\ DOMAIN cardOut.pix = DOMAIN cardPre.pix
    /\ \A q \in DOMAIN cardOut.pix :
         /\ InRepairRect(q[1], q[2]) => cardOut.pix[q] = [c |-> 0, a |-> 255]
         /\ ~InRepairRect(q[1], q[2]) => cardOut.pix[q] = cardPre.pix[q]

\* C16 witness: a JPEG card with rectangles at least one pixel wide has been
\* repaired; the repair has changed a pixel inside a rectangle and has left
\* a pixel of the card that is not black as it was.
C16_Witness ==
  /\ cardPc = "done" /\ cardFixed /\ CardBleedPx >= 2
  /\ \E q \in DOMAIN cardOut.pix :
       InRepairRect(q[1], q[2]) /\ cardOut.pix[q] # cardPre.pix[q]
  /\ \E q \in DOMAIN cardOut.pix :
       ~InRepairRect(q[1], q[2]) /\ cardOut.pix[q].c # 0

----------------------------------------------------------------------------
\* The pixels fixCorners draws on: those of its eight rectangles.
Painted ==
  LET rects == CornerRects(CardBleedPx, cardNoBleedBounds(cardW, cardH))
  IN  UNION { Points(rects[i]) : i \in 1..Len(rects) }

\* C17 as stated: every rectangle painted by the corner repair runs outward
\* from its corner into the bleed margin: every painted pixel lies outside
\* the inner rectangle and inside the outer bounds.
C17_PaintedInMargin ==
  (cardPc = "done" /\ cardFixed) =>
    \A q \in Painted :
      /\ ~InRect(q[1], q[2], InnerRect)
      /\ InRect(q[1], q[2], OuterRect)

\* C17 amended: every rectangle painted by the corner repair runs inward
\* from its corner, over the card: every painted pixel lies inside the outer
\* bounds, and inside the inner rectangle when the card is at least bleedPx
\* high; and every pixel the repair has changed lies inside the inner
\* rectangle.
C17_PaintedInsideCard ==
  (cardPc = "done" /\ cardFixed) =>
    /\ \A q \in Painted :
         /\ InRect(q[1], q[2], OuterRect)
         /\ cardH >= CardBleedPx => InRect(q[1], q[2], InnerRect)
    /\ \A q \in DOMAIN cardOut.pix :
         cardOut.pix[q] # cardPre.pix[q] => InRect(q[1], q[2], InnerRect)

\* C17 witness: a JPEG card at least bleedPx high has been repaired, and a
\* painted pixel of the card has changed.
C17_Witness ==
  /\ cardPc = "done" /\ cardFixed /\ cardH >= CardBleedPx
  /\ \E q \in Painted :
       InRect(q[1], q[2], InnerRect) /\ cardOut.pix[q] # cardPre.pix[q]

----------------------------------------------------------------------------
\* C19: a job that ends in failure leaves the output folder as it was,
\* whatever made it fail (the input cannot be opened, it cannot be decoded,
\* the output format asked for is not supported): it neither creates a file
\* nor truncates one. So when main is past the jobs and every job of the
\* run has failed, the output folder is one of the folders runs start with.
C19_FailedJobLeavesOutputAlone ==
  (mainPc \in {"print", "exited"} /\ \A r \in results : r.outcome = "failed") =>
    outFiles \in InitialOutFolders

----------------------------------------------------------------------------
\* C20: a job that has reached its outcome (written, skipped or failed) has
\* closed every file it opened, the input and the output if it made one; so
\* no finished job holds a file open, and once main is past the jobs no
\* file is open.
C20_HandlesClosedAtOutcome ==
  /\ \A r \in results : r.open = 0
  /\ mainPc = "print" => openHandles = 0
====
